---- MODULE Spec2Model ----
(***************************************************************************)
(* Model of the video server's quality-delivery core:                      *)
(*   - on-demand transcoding with a validated file cache                   *)
(*     (backend/app/services/transcoding_service.py),                      *)
(*   - the HLS conversion pipeline (backend/app/services/hls_service.py,   *)
(*     backend/add_4k_hls.py, the /convert-hls endpoint),                  *)
(*   - HTTP range serving (stream_video in backend/app/api/v1/videos.py).  *)
(* One asset (one original file) is modelled; a cache key is therefore a   *)
(* quality label.                                                          *)
(***************************************************************************)
EXTENDS Integers, Sequences, FiniteSets, Bags, TLC

(***************************************************************************)
(* Bounds of the model.                                                    *)
(***************************************************************************)
\* number of requests (get_video_for_quality calls, stream requests, quality
\* listings) in one behaviour
MaxRequests == 3
\* number of clock ticks (each of TickStep seconds)
MaxTicks == 1
\* number of /convert-hls requests in one behaviour
MaxTriggers == 2
\* bytes per read of the streaming generators (1 MiB in the program, scaled down
\* with the file sizes)
chunk_size == 64

(***************************************************************************)
(* Program constants.                                                      *)
(***************************************************************************)
VALIDATION_CACHE_TTL == 300
\* "Less than 1KB is suspicious"
MinFileSize == 1000

TickStep == VALIDATION_CACHE_TTL

QUALITY_SETTINGS ==
    [ q \in {"480p", "720p", "1080p", "4k"} |->
        CASE q = "480p"  -> [width |-> 854,  height |-> 480,  bitrate |-> 1000,  audio_bitrate |-> 128]
          [] q = "720p"  -> [width |-> 1280, height |-> 720,  bitrate |-> 2500,  audio_bitrate |-> 192]
          [] q = "1080p" -> [width |-> 1920, height |-> 1080, bitrate |-> 5000,  audio_bitrate |-> 192]
          [] q = "4k"    -> [width |-> 3840, height |-> 2160, bitrate |-> 20000, audio_bitrate |-> 256] ]

LadderQualities == DOMAIN QUALITY_SETTINGS

QualityType == LadderQualities \cup {"original"}

\* native (width, height) of the asset's original file
NativeSizes == { <<1920, 1080>>, <<1080, 1920>> }

VARIABLES
    origExists,   \* the original file is on disk
    native,       \* <<width, height>> of the original
    key,          \* the ladder quality that requests of this behaviour ask for
    file,         \* file[q]: what is at get_transcoded_path(original, q)
    vcache,       \* _validation_cache, keyed by the transcoded path of q
    now,          \* time.time()
    jobs,         \* the transcode_video coroutines that have not returned
    nreq,         \* number of get_video_for_quality calls so far
    event,        \* the call that is returning, and what it returns
    viewCount,    \* video.view_count
    hlsDir,       \* the {stem}_hls directory exists
    playlist,     \* playlist[q]: {stem}_hls/{q}/playlist.m3u8 exists
    master,       \* {stem}_hls/master.m3u8: whether it exists and the renditions it lists
    runs,         \* the convert_video_to_hls coroutines that have not returned
    add4k,        \* the add_4k_to_video script: "idle", "encoding" or "done"
    ntrig,        \* number of /convert-hls requests so far
    hlsEvent,     \* the HLS call that is returning, and what it returns
    fileSize,     \* os.path.getsize of the file stream_video serves
    rangeHeader,  \* the request's Range header, a string (empty when absent)
    reqRange,     \* the first and last byte the client asked for (-1: left out)
    response,     \* status and headers of the StreamingResponse
    fpos,         \* position of the generator's file object
    remaining,    \* iterfile_range's remaining
    sent,         \* the bytes the generator has yielded
    rpc           \* "request", "streaming", "done" or "error"

tvars == <<origExists, native, key, file, vcache, now, jobs, nreq, event, viewCount>>

hvars == <<hlsDir, playlist, master, runs, add4k, ntrig, hlsEvent>>

rvars == <<fileSize, rangeHeader, reqRange, response, fpos, remaining, sent, rpc>>

vars == <<tvars, hvars, rvars>>

(***************************************************************************)
(* Files.  A transcoded path holds nothing ("absent"), a file an encoder   *)
(* has opened and not completed ("partial"), a completed file under the    *)
(* minimum size ("small"), or a completed playable file ("ok").            *)
(***************************************************************************)
FileStates == {"absent", "partial", "small", "ok"}

exists(q) == file[q] # "absent"

\* os.path.getsize, as far as the 1000-byte threshold can tell
getsize(f) ==
    CASE f = "absent" -> 0
      [] f = "small"  -> MinFileSize - 1
      [] OTHER        -> MinFileSize

NoEntry == [valid |-> FALSE, ts |-> -1]

\* outcome of running ffprobe on the file: TRUE iff a video stream is found
ffprobe_valid(f) == f = "ok"

(***************************************************************************)
(* is_valid_video_file(path, use_cache=True): the returned verdict and the *)
(* validation cache after the call.  probe is "ran" when the ffprobe       *)
(* subprocess completes and "raised" when it times out or cannot be run.   *)
(***************************************************************************)
CacheFresh(e, t) == e.ts >= 0 /\ t - e.ts < VALIDATION_CACHE_TTL

\* mutant: a file that exists is taken to be valid
is_valid_video_file_trusting(q, probe) == [ret |-> exists(q), cache |-> vcache]

\* mutant: the cached verdict is recorded but not consulted
is_valid_video_file_uncached(q, probe) ==
    IF ~exists(q) \/ probe = "raised"
    THEN [ret |-> FALSE, cache |-> vcache]
    ELSE [ret |-> ffprobe_valid(file[q]),
          cache |-> [vcache EXCEPT ![q] = [valid |-> ffprobe_valid(file[q]), ts |-> now]]]

\* mutant: the result of a probe is returned but not recorded
is_valid_video_file_unrecorded(q, probe) ==
    IF ~exists(q)
    THEN [ret |-> FALSE, cache |-> vcache]
    ELSE IF CacheFresh(vcache[q], now)
    THEN [ret |-> vcache[q].valid, cache |-> vcache]
    ELSE [ret |-> probe # "raised" /\ ffprobe_valid(file[q]), cache |-> vcache]

is_valid_video_file(q, probe) ==
    IF ~exists(q)
    THEN [ret |-> FALSE, cache |-> vcache]
    ELSE IF CacheFresh(vcache[q], now)
    THEN [ret |-> vcache[q].valid, cache |-> vcache]
    ELSE IF probe = "raised"
    THEN [ret |-> FALSE, cache |-> vcache]
    ELSE [ret |-> ffprobe_valid(file[q]),
          cache |-> [vcache EXCEPT ![q] = [valid |-> ffprobe_valid(file[q]), ts |-> now]]]

(***************************************************************************)
(* get_video_resolution: (width, height) of the stream, or (0, 0).         *)
(***************************************************************************)
ResolutionProbes == { native, <<0, 0>> }

\* mutant: the no-upscale test written with < instead of <=
should_use_original_strict(res, q) ==
    IF q = "original" THEN TRUE
    ELSE IF res[1] = 0 \/ res[2] = 0 THEN FALSE
    ELSE IF q \notin DOMAIN QUALITY_SETTINGS THEN FALSE
    ELSE res[2] < QUALITY_SETTINGS[q].height

should_use_original(res, q) ==
    IF q = "original" THEN TRUE
    ELSE IF res[1] = 0 \/ res[2] = 0 THEN FALSE
    ELSE IF q \notin DOMAIN QUALITY_SETTINGS THEN FALSE
    ELSE res[2] <= QUALITY_SETTINGS[q].height

(***************************************************************************)
(* Encode jobs: the bag of transcode_video coroutines that have not yet    *)
(* returned, one record each.                                              *)
(*   st: "pending"  created, the encoder process not yet started           *)
(*       "running"  the encoder process runs                               *)
(*       "exited"   the process has exited, communicate() not yet resumed  *)
(*   attached: the process's output descriptor is the file now at the path *)
(*             (os.remove of the path detaches it)                         *)
(***************************************************************************)
NewJob(q, sync) ==
    [q |-> q, sync |-> sync, st |-> "pending", rc |-> 0, attached |-> FALSE]

Job(r) == SetToBag({r})

\* number of encode jobs in flight for key q
InFlight(q) == BagCardinality([r \in {x \in BagToSet(jobs) : x.q = q} |-> jobs[r]])

\* number of in-flight encode jobs for key q that background-mode calls created
InFlightBackground(q) ==
    BagCardinality([r \in {x \in BagToSet(jobs) : x.q = q /\ ~x.sync} |-> jobs[r]])

\* number of running encoder processes whose output descriptor is the file at q's path
Writers(q) ==
    BagCardinality([r \in {x \in BagToSet(jobs) :
                             x.q = q /\ x.st = "running" /\ x.attached} |-> jobs[r]])

\* os.remove(path): the path is gone and every open descriptor on it is orphaned
Detach(js, q) ==
    BagOfAll(LAMBDA r : IF r.q = q THEN [r EXCEPT !.attached = FALSE] ELSE r, js)

(***************************************************************************)
(* get_video_for_quality(original_path, quality, transcode_in_background)  *)
(* up to the point where it returns or awaits transcode_video.             *)
(***************************************************************************)
NoEvent ==
    [op |-> "none", q |-> "original", known |-> FALSE, path |-> "none",
     started |-> FALSE, rc |-> 0, ret |-> FALSE, left |-> "absent",
     sync |-> FALSE, found |-> "absent", fresh |-> FALSE, status |-> 0,
     ranged |-> FALSE, listed |-> {}]

\* mutant: a background-mode miss awaits the encode as a sync-mode miss does
miss_reply_waits(sync) == "awaiting"

\* mutant: a background-mode miss resolves no path
miss_reply_none(sync) == IF sync THEN "awaiting" ELSE "none"

\* what a call that misses the cache does once the encode job is created: a
\* background-mode call returns the original path, a sync-mode call awaits the job
miss_reply(sync) == IF sync THEN "awaiting" ELSE "original"

\* get_video_for_quality up to its return or its await: the path it resolves,
\* whether it created a transcode_video coroutine, and the files, validation
\* cache and jobs it leaves
get_video_for_quality(q, sync, res, probe) ==
    LET same == [path |-> "original", started |-> FALSE, file |-> file,
                 vcache |-> vcache, jobs |-> jobs]
    IN IF q = "original" THEN same
       ELSE IF ~origExists THEN [same EXCEPT !.path = "none"]
       ELSE IF should_use_original(res, q) THEN same
       ELSE LET v == is_valid_video_file(q, probe) IN
            IF exists(q) /\ v.ret
            THEN [same EXCEPT !.path = "transcoded", !.vcache = v.cache]
            ELSE [path    |-> miss_reply(sync),
                  started |-> TRUE,
                  file    |-> [file EXCEPT ![q] = "absent"],
                  vcache  |-> v.cache,
                  jobs    |-> (IF exists(q) THEN Detach(jobs, q) ELSE jobs)
                              (+) Job(NewJob(q, sync))]

\* what the returning get_video_for_quality call reports
Reply(q, sync, res, g) ==
    [NoEvent EXCEPT !.op = "get_video_for_quality", !.q = q, !.sync = sync,
                    !.known = (q # "original" /\ origExists /\ res[1] # 0 /\ res[2] # 0),
                    !.path = g.path, !.started = g.started,
                    !.found = IF q \in LadderQualities THEN file[q] ELSE "absent",
                    !.fresh = (q \in LadderQualities /\ CacheFresh(vcache[q], now))]

GetVideoForQuality ==
    \E q \in {key, "original"}, sync \in BOOLEAN, res \in ResolutionProbes,
       probe \in {"ran", "raised"} :
        LET g == get_video_for_quality(q, sync, res, probe) IN
        /\ event = NoEvent
        /\ nreq < MaxRequests
        /\ nreq' = nreq + 1
        /\ file' = g.file
        /\ vcache' = g.vcache
        /\ jobs' = g.jobs
        /\ event' = Reply(q, sync, res, g)
        /\ UNCHANGED <<origExists, native, key, now, viewCount>>
        /\ UNCHANGED <<hvars, rvars>>

(***************************************************************************)
(* is_transcoded_available and get_available_qualities (the qualities      *)
(* endpoint).                                                              *)
(***************************************************************************)
\* is_transcoded_available for a ladder quality: the verdict, whether the file was
\* removed, and q's validation-cache entry after the call
is_transcoded_available(q, probe) ==
    IF ~exists(q)
    THEN [ret |-> FALSE, removed |-> FALSE, entry |-> vcache[q]]
    ELSE LET v == is_valid_video_file(q, probe)
         IN [ret |-> v.ret, removed |-> ~v.ret, entry |-> v.cache[q]]

GetAvailableQualities ==
    \E probes \in [LadderQualities -> {"ran", "raised"}] :
        LET a(q) == is_transcoded_available(q, probes[q]) IN
        /\ event = NoEvent
        /\ nreq < MaxRequests
        /\ nreq' = nreq + 1
        /\ file' = [q \in LadderQualities |-> IF a(q).removed THEN "absent" ELSE file[q]]
        /\ vcache' = [q \in LadderQualities |-> a(q).entry]
        /\ jobs' = BagOfAll(LAMBDA r : IF a(r.q).removed THEN [r EXCEPT !.attached = FALSE]
                                       ELSE r, jobs)
        /\ event' = [NoEvent EXCEPT !.op = "get_available_qualities",
                                    !.listed = {"original"} \cup {q \in LadderQualities : a(q).ret}]
        /\ UNCHANGED <<origExists, native, key, now, viewCount>>
        /\ UNCHANGED <<hvars, rvars>>

(***************************************************************************)
(* transcode_video                                                         *)
(***************************************************************************)
\* <<width, height>> of the file the encoder writes for q: the scale filter is
\* the ladder entry's width and height
produced_size(q) == <<QUALITY_SETTINGS[q].width, QUALITY_SETTINGS[q].height>>

\* asyncio.create_subprocess_exec: ffmpeg -y opens (creates or truncates) the output
Spawn(r) ==
    /\ event = NoEvent
    /\ r.st = "pending"
    /\ jobs' = (jobs (-) Job(r)) (+) Job([r EXCEPT !.st = "running", !.attached = TRUE])
    /\ file' = [file EXCEPT ![r.q] = "partial"]
    /\ UNCHANGED <<origExists, native, key, vcache, now, nreq, event, viewCount>>
    /\ UNCHANGED <<hvars, rvars>>

\* asyncio.create_subprocess_exec raises: the except branch of transcode_video
SpawnRaises(r) ==
    /\ event = NoEvent
    /\ r.st = "pending"
    /\ file' = [file EXCEPT ![r.q] = "absent"]
    /\ jobs' = IF exists(r.q) THEN Detach(jobs (-) Job(r), r.q) ELSE jobs (-) Job(r)
    /\ event' = [NoEvent EXCEPT !.op = "transcode_video", !.q = r.q, !.rc = 1,
                                !.ret = FALSE, !.left = "absent", !.sync = r.sync,
                                !.path = IF r.sync THEN "original" ELSE "none"]
    /\ UNCHANGED <<origExists, native, key, vcache, now, nreq, viewCount>>
    /\ UNCHANGED <<hvars, rvars>>

\* what a process that exits with rc leaves in the file it writes
ExitOutcomes(r, rc) ==
    IF rc = 0
    THEN {"ok", "small"} \cup (IF Writers(r.q) > 1 THEN {"partial"} ELSE {})
    ELSE {"partial"}

ProcessExit(r) ==
    /\ event = NoEvent
    /\ r.st = "running"
    /\ \E rc \in {0, 1} :
        /\ jobs' = (jobs (-) Job(r))
                   (+) Job([r EXCEPT !.st = "exited", !.rc = rc, !.attached = FALSE])
        /\ IF r.attached
           THEN \E out \in ExitOutcomes(r, rc) : file' = [file EXCEPT ![r.q] = out]
           ELSE UNCHANGED file
    /\ UNCHANGED <<origExists, native, key, vcache, now, nreq, event, viewCount>>
    /\ UNCHANGED <<hvars, rvars>>

\* the value transcode_video returns once communicate() has returned
transcode_result(rc, f) == rc = 0

\* the file transcode_video leaves at the output path
transcode_cleanup(rc, f) == IF rc = 0 THEN f ELSE "absent"

\* communicate() returns: the rest of transcode_video, and of a sync caller awaiting it
Finish(r) ==
    /\ event = NoEvent
    /\ r.st = "exited"
    /\ LET ok == transcode_result(r.rc, file[r.q])
           f  == transcode_cleanup(r.rc, file[r.q])
           js == jobs (-) Job(r)
       IN /\ file' = [file EXCEPT ![r.q] = f]
          /\ jobs' = IF f = "absent" /\ exists(r.q) THEN Detach(js, r.q) ELSE js
          /\ event' = [NoEvent EXCEPT !.op = "transcode_video", !.q = r.q, !.rc = r.rc,
                                      !.ret = ok, !.left = f, !.sync = r.sync,
                                      !.path = IF ~r.sync THEN "none"
                                               ELSE IF ok THEN "transcoded" ELSE "original"]
    /\ UNCHANGED <<origExists, native, key, vcache, now, nreq, viewCount>>
    /\ UNCHANGED <<hvars, rvars>>

\* the returning call's value has been handed to its caller
Return ==
    /\ event # NoEvent
    /\ event' = NoEvent
    /\ UNCHANGED <<origExists, native, key, file, vcache, now, jobs, nreq, viewCount>>
    /\ UNCHANGED <<hvars, rvars>>

Tick ==
    /\ event = NoEvent
    /\ now < MaxTicks * TickStep
    /\ now' = now + TickStep
    /\ UNCHANGED <<origExists, native, key, file, vcache, jobs, nreq, event, viewCount>>
    /\ UNCHANGED <<hvars, rvars>>

(***************************************************************************)
(* Deleting: delete_transcoded_files and the delete endpoint               *)
(* (VideoService.delete).  A path is the sequence of the parts of its file *)
(* name inside the video directory.                                        *)
(***************************************************************************)
\* the original file's name: UUID.mp4
original_path == <<"UUID", ".mp4">>

\* Path(path).stem
stem(path) == path[1]

\* {video_dir}/{stem}_{quality}.mp4
get_transcoded_path(path, quality) ==
    IF quality = "original" THEN path ELSE <<stem(path), "_", quality, ".mp4">>

\* the file delete_transcoded_files looks for: video_dir / f"{quality}.mp4"
transcoded_file(path, quality) == <<quality, ".mp4">>

\* the files at the transcoded paths after delete_transcoded_files(path): a file is
\* unlinked when one of the names the loop builds is its name
delete_transcoded_files(path) ==
    [q \in LadderQualities |->
        IF \E quality \in LadderQualities :
              transcoded_file(path, quality) = get_transcoded_path(path, q)
        THEN "absent" ELSE file[q]]

DeleteTranscodedFiles ==
    LET f == delete_transcoded_files(original_path) IN
    /\ event = NoEvent
    /\ nreq < MaxRequests
    /\ nreq' = nreq + 1
    /\ file' = f
    /\ jobs' = BagOfAll(LAMBDA r : IF exists(r.q) /\ f[r.q] = "absent"
                                   THEN [r EXCEPT !.attached = FALSE] ELSE r, jobs)
    /\ event' = [NoEvent EXCEPT !.op = "delete_transcoded_files"]
    /\ UNCHANGED <<origExists, native, key, vcache, now, viewCount>>
    /\ UNCHANGED <<hvars, rvars>>

\* DELETE /{video_id}: VideoService.delete removes the original file and the row
DeleteVideo ==
    /\ event = NoEvent
    /\ origExists
    /\ origExists' = FALSE
    /\ event' = [NoEvent EXCEPT !.op = "delete_video", !.status = 204]
    /\ UNCHANGED <<native, key, file, vcache, now, jobs, nreq, viewCount>>
    /\ UNCHANGED <<hvars, rvars>>

InitTranscode ==
    /\ origExists \in BOOLEAN
    /\ native \in NativeSizes
    /\ key \in LadderQualities
    /\ file = [q \in LadderQualities |-> "absent"]
    /\ vcache = [q \in LadderQualities |-> NoEntry]
    /\ now = 0
    /\ jobs = EmptyBag
    /\ nreq = 0
    /\ event = NoEvent
    /\ viewCount = 0


(***************************************************************************)
(* HLS conversion (hls_service.py, add_4k_hls.py, POST /convert-hls).      *)
(* The encoder is taken at its contract: a process that exits with status  *)
(* 0 has written its playlist; one that exits with another status may or   *)
(* may not have left one behind.  Nothing in the program removes a         *)
(* playlist or the master (delete_hls_files has no caller).                *)
(***************************************************************************)
LadderOrder == <<"480p", "720p", "1080p", "4k">>

DefaultQualities == <<"480p", "720p", "1080p">>

\* the presets of the HLS encoder: the same four entries as QUALITY_SETTINGS
HLS_QUALITY_SETTINGS == QUALITY_SETTINGS

\* the quality lists that /convert-hls requests carry (None is the default list);
\* the parameter is a list of arbitrary strings
QualityLists ==
    { DefaultQualities, <<"4k">>, <<"1080p", "480p">>, <<"720p", "720p">>, <<>>,
      <<"8k">>, <<"480p", "8k">>, <<"8k", "480p">> }

NoMaster == [exists |-> FALSE, quals |-> <<>>]

\* mutant: the completed conversion is never detected
is_hls_available_never == FALSE

is_hls_available == master.exists

\* the qualities of LadderOrder, in that order, whose playlist exists
get_available_hls_qualities ==
    IF ~hlsDir THEN <<>>
    ELSE SelectSeq(LadderOrder, LAMBDA q : playlist[q])

\* create_master_playlist(hls_dir, qualities): one entry per listed quality
create_master_playlist(qualities) == [exists |-> TRUE, quals |-> qualities]

\* bandwidth and resolution that create_master_playlist writes for a quality
StreamInf(q) ==
    [bandwidth |-> QUALITY_SETTINGS[q].bitrate * 1000,
     width |-> QUALITY_SETTINGS[q].width, height |-> QUALITY_SETTINGS[q].height]

NoHlsEvent ==
    [op |-> "none", message |-> "", available |-> <<>>, quals |-> <<>>,
     outcomes |-> <<>>, ret |-> FALSE, code |-> 0, status |-> "", progress |-> 0,
     raised |-> FALSE]

\* a convert_video_to_hls coroutine: the list it converts, the index of the quality
\* whose encoder runs (0 before the coroutine has started), the outcomes so far
\* and successful_qualities
NewRun(qualities) ==
    [quals |-> qualities, i |-> 0, outcomes |-> <<>>, successful |-> <<>>]

Run(r) == SetToBag({r})

\* POST /{video_id}/convert-hls
ConvertHlsEndpoint(qualities) ==
    /\ hlsEvent = NoHlsEvent
    /\ ntrig < MaxTriggers
    /\ ntrig' = ntrig + 1
    /\ IF is_hls_available
       THEN /\ hlsEvent' = [NoHlsEvent EXCEPT
                               !.op = "convert-hls", !.quals = qualities,
                               !.message = "HLS conversion already completed",
                               !.available = get_available_hls_qualities]
            /\ UNCHANGED runs
       ELSE /\ hlsEvent' = [NoHlsEvent EXCEPT !.op = "convert-hls", !.quals = qualities,
                                              !.message = "HLS conversion started"]
            /\ runs' = runs (+) Run(NewRun(qualities))
    /\ UNCHANGED <<hlsDir, playlist, master, add4k>>
    /\ UNCHANGED <<tvars, rvars>>

\* successful_qualities after one convert_to_hls_quality call
record_outcome(successful, quality, success) ==
    IF success THEN Append(successful, quality) ELSE successful

\* mutant: the master lists every requested quality
finish_conversion_requested(r) ==
    IF r.successful = <<>>
    THEN [ret |-> FALSE, master |-> master]
    ELSE [ret |-> TRUE, master |-> create_master_playlist(r.quals)]

\* what convert_video_to_hls does once every quality has been attempted
finish_conversion(r) ==
    IF r.successful = <<>>
    THEN [ret |-> FALSE, master |-> master]
    ELSE [ret |-> TRUE, master |-> create_master_playlist(r.successful)]

Completion(r) ==
    [NoHlsEvent EXCEPT !.op = "convert_video_to_hls", !.quals = r.quals,
                       !.outcomes = r.outcomes, !.ret = finish_conversion(r).ret]

\* convert_to_hls_quality looks the preset up before its try block: a label
\* that is no key of HLS_QUALITY_SETTINGS raises KeyError out of the function
lookup_raises(quality) == quality \notin DOMAIN HLS_QUALITY_SETTINGS

\* the exception leaves convert_video_to_hls: the coroutine ends with neither a
\* return value nor a master
Aborted(r) ==
    [NoHlsEvent EXCEPT !.op = "convert_video_to_hls", !.quals = r.quals,
                       !.outcomes = r.outcomes, !.raised = TRUE]

\* the coroutine starts: hls_dir.mkdir, then the first convert_to_hls_quality
\* up to its encoder process being started
RunStart(r) ==
    /\ hlsEvent = NoHlsEvent
    /\ r.i = 0
    /\ hlsDir' = TRUE
    /\ IF r.quals = <<>>
       THEN /\ runs' = runs (-) Run(r)
            /\ master' = finish_conversion(r).master
            /\ hlsEvent' = Completion(r)
       ELSE IF lookup_raises(r.quals[1])
       THEN /\ runs' = runs (-) Run(r)
            /\ hlsEvent' = Aborted(r)
            /\ UNCHANGED master
       ELSE /\ runs' = (runs (-) Run(r)) (+) Run([r EXCEPT !.i = 1])
            /\ UNCHANGED <<master, hlsEvent>>
    /\ UNCHANGED <<playlist, add4k, ntrig>>
    /\ UNCHANGED <<tvars, rvars>>

\* the playlists after an encoder for quality q exits with rc
EncoderWrites(q, rc, wrote) ==
    [playlist EXCEPT ![q] = @ \/ rc = 0 \/ wrote]

\* the encoder of the current quality exits: convert_to_hls_quality returns, the
\* loop goes on to the next quality, and after the last one the master is built
RunStep(r) ==
    /\ hlsEvent = NoHlsEvent
    /\ r.i >= 1
    /\ \E rc \in {0, 1}, wrote \in BOOLEAN :
        LET q    == r.quals[r.i]
            r2   == [r EXCEPT !.outcomes = Append(@, rc = 0),
                              !.successful = record_outcome(@, q, rc = 0)]
        IN /\ playlist' = EncoderWrites(q, rc, wrote)
           /\ IF r.i < Len(r.quals) /\ lookup_raises(r.quals[r.i + 1])
              THEN /\ runs' = runs (-) Run(r)
                   /\ hlsEvent' = Aborted(r2)
                   /\ UNCHANGED master
              ELSE IF r.i < Len(r.quals)
              THEN /\ runs' = (runs (-) Run(r)) (+) Run([r2 EXCEPT !.i = r.i + 1])
                   /\ UNCHANGED <<master, hlsEvent>>
              ELSE /\ runs' = runs (-) Run(r)
                   /\ master' = finish_conversion(r2).master
                   /\ hlsEvent' = Completion(r2)
    /\ UNCHANGED <<hlsDir, add4k, ntrig>>
    /\ UNCHANGED <<tvars, rvars>>

\* add_4k_to_video: returns at once without the HLS directory, else starts the
\* 4k encoder
Add4kStart ==
    /\ hlsEvent = NoHlsEvent
    /\ add4k = "idle"
    /\ add4k' = IF hlsDir THEN "encoding" ELSE "done"
    /\ UNCHANGED <<hlsDir, playlist, master, runs, ntrig, hlsEvent>>
    /\ UNCHANGED <<tvars, rvars>>

\* the 4k encoder exits; on success the master is rebuilt from the playlists on disk
Add4kExit ==
    /\ hlsEvent = NoHlsEvent
    /\ add4k = "encoding"
    /\ add4k' = "done"
    /\ \E rc \in {0, 1}, wrote \in BOOLEAN :
        /\ playlist' = EncoderWrites("4k", rc, wrote)
        /\ master' = IF rc = 0
                     THEN create_master_playlist(SelectSeq(LadderOrder, LAMBDA q : playlist'[q]))
                     ELSE master
    /\ UNCHANGED <<hlsDir, runs, ntrig, hlsEvent>>
    /\ UNCHANGED <<tvars, rvars>>

\* GET /{video_id}/hls/status
HlsStatusEndpoint ==
    /\ hlsEvent = NoHlsEvent
    /\ hlsEvent' = [NoHlsEvent EXCEPT
                       !.op = "hls/status", !.code = 200,
                       !.status = IF is_hls_available THEN "available" ELSE "unavailable",
                       !.available = get_available_hls_qualities]
    /\ UNCHANGED <<hlsDir, playlist, master, runs, add4k, ntrig>>
    /\ UNCHANGED <<tvars, rvars>>

\* the functions that the module hls_service defines
hls_service_functions ==
    { "get_hls_directory", "get_master_playlist_path", "get_quality_playlist_path",
      "is_hls_available", "get_available_hls_qualities", "convert_to_hls_quality",
      "create_master_playlist", "convert_video_to_hls", "delete_hls_files" }

\* GET /{video_id}/hls/progress: the completed snapshot when the master exists;
\* otherwise the handler looks up hls_service.get_conversion_progress, which
\* raises AttributeError when the module has no such function (the response is
\* then a 500); a falsy progress gives the not_started snapshot
HlsProgressEndpoint ==
    /\ hlsEvent = NoHlsEvent
    /\ hlsEvent' =
         IF is_hls_available
         THEN [NoHlsEvent EXCEPT !.op = "hls/progress", !.code = 200,
                                 !.status = "completed", !.progress = 100]
         ELSE IF "get_conversion_progress" \notin hls_service_functions
         THEN [NoHlsEvent EXCEPT !.op = "hls/progress", !.code = 500]
         ELSE [NoHlsEvent EXCEPT !.op = "hls/progress", !.code = 200,
                                 !.status = "not_started", !.progress = 0]
    /\ UNCHANGED <<hlsDir, playlist, master, runs, add4k, ntrig>>
    /\ UNCHANGED <<tvars, rvars>>

HlsReturn ==
    /\ hlsEvent # NoHlsEvent
    /\ hlsEvent' = NoHlsEvent
    /\ UNCHANGED <<hlsDir, playlist, master, runs, add4k, ntrig>>
    /\ UNCHANGED <<tvars, rvars>>

InitHls ==
    /\ hlsDir = FALSE
    /\ playlist = [q \in LadderQualities |-> FALSE]
    /\ master = NoMaster
    /\ runs = EmptyBag
    /\ add4k = "idle"
    /\ ntrig = 0
    /\ hlsEvent = NoHlsEvent

(***************************************************************************)
(* Range serving (stream_video).  Strings are sequences of characters.     *)
(***************************************************************************)
Digits == <<"0", "1", "2", "3", "4", "5", "6", "7", "8", "9">>

IsDigit(c) == \E d \in 1..10 : Digits[d] = c

DigitValue(c) == (CHOOSE d \in 1..10 : Digits[d] = c) - 1

RECURSIVE str(_)
\* the decimal digits of a natural number
str(n) == IF n < 10 THEN <<Digits[n + 1]>> ELSE str(n \div 10) \o <<Digits[(n % 10) + 1]>>

\* int(s) raises ValueError unless s is a string of digits
IsInt(s) == s # <<>> /\ \A i \in 1..Len(s) : IsDigit(s[i])

RECURSIVE int(_)
int(s) ==
    IF Len(s) = 1 THEN DigitValue(s[1])
    ELSE 10 * int(SubSeq(s, 1, Len(s) - 1)) + DigitValue(s[Len(s)])

StartsWith(s, p) == Len(s) >= Len(p) /\ SubSeq(s, 1, Len(p)) = p

RECURSIVE replace(_, _)
\* s.replace(old, ""), old not empty
replace(s, old) ==
    IF s = <<>> THEN <<>>
    ELSE IF StartsWith(s, old) THEN replace(SubSeq(s, Len(old) + 1, Len(s)), old)
    ELSE <<Head(s)>> \o replace(Tail(s), old)

RECURSIVE split(_, _)
\* s.split(sep), sep one character
split(s, sep) ==
    IF \A i \in 1..Len(s) : s[i] # sep THEN <<s>>
    ELSE LET i == CHOOSE k \in 1..Len(s) : s[k] = sep /\ \A m \in 1..(k - 1) : s[m] # sep
         IN <<SubSeq(s, 1, i - 1)>> \o split(SubSeq(s, i + 1, Len(s)), sep)

BytesEq == <<"b", "y", "t", "e", "s", "=">>

Min(a, b) == IF a <= b THEN a ELSE b

\* the byte at an offset of the served file
fileByte(i) == i % 256

\* range_header.replace("bytes=", "").split("-")
range_match(header) == split(replace(header, BytesEq), "-")

\* the parse raises (ValueError from int, IndexError from range_match[1])
parse_raises(header) ==
    LET m == range_match(header)
    IN \/ (m[1] # <<>> /\ ~IsInt(m[1]))
       \/ Len(m) < 2
       \/ (m[2] # <<>> /\ ~IsInt(m[2]))

range_start(header) ==
    LET m == range_match(header) IN IF m[1] # <<>> THEN int(m[1]) ELSE 0

\* mutant: the end is not clamped to the last byte of the file
range_end_unclamped(header, file_size) ==
    LET m == range_match(header) IN IF m[2] # <<>> THEN int(m[2]) ELSE file_size - 1

range_end(header, file_size) ==
    LET m == range_match(header)
    IN Min(IF m[2] # <<>> THEN int(m[2]) ELSE file_size - 1, file_size - 1)

NoResponse == [status |-> 0, start |-> 0, end |-> 0, content_length |-> 0, ranged |-> FALSE]

\* stream_video from the Range header on: the status and headers of the response
ServeRequest ==
    /\ rpc = "request"
    /\ IF rangeHeader # <<>>
       THEN IF parse_raises(rangeHeader)
            THEN /\ response' = [NoResponse EXCEPT !.status = 500]
                 /\ rpc' = "error"
                 /\ UNCHANGED <<fpos, remaining>>
            ELSE LET start == range_start(rangeHeader)
                     end   == range_end(rangeHeader, fileSize)
                     content_length == end - start + 1
                 IN /\ response' = [status |-> 206, start |-> start, end |-> end,
                                    content_length |-> content_length, ranged |-> TRUE]
                    /\ fpos' = start
                    /\ remaining' = content_length
                    /\ rpc' = "streaming"
       ELSE /\ response' = [NoResponse EXCEPT !.status = 200, !.content_length = fileSize]
            /\ fpos' = 0
            /\ UNCHANGED remaining
            /\ rpc' = "streaming"
    /\ UNCHANGED <<fileSize, rangeHeader, reqRange, sent>>
    /\ UNCHANGED <<tvars, hvars>>

\* f.read(n) at position fpos: the bytes up to the end of the file
read(n) ==
    LET k == Min(n, IF fpos >= fileSize THEN 0 ELSE fileSize - fpos)
    IN [i \in 1..k |-> fileByte(fpos + i - 1)]

\* one turn of iterfile_range's loop
IterfileRange ==
    /\ rpc = "streaming"
    /\ response.ranged
    /\ IF remaining > 0
       THEN LET chunk == read(Min(chunk_size, remaining))
            IN IF chunk = <<>>
               THEN /\ rpc' = "done"
                    /\ UNCHANGED <<fpos, remaining, sent>>
               ELSE /\ remaining' = remaining - Len(chunk)
                    /\ fpos' = fpos + Len(chunk)
                    /\ sent' = sent \o chunk
                    /\ UNCHANGED rpc
       ELSE /\ rpc' = "done"
            /\ UNCHANGED <<fpos, remaining, sent>>
    /\ UNCHANGED <<fileSize, rangeHeader, reqRange, response>>
    /\ UNCHANGED <<tvars, hvars>>

\* one turn of iterfile's loop
Iterfile ==
    /\ rpc = "streaming"
    /\ ~response.ranged
    /\ LET chunk == read(chunk_size)
       IN IF chunk = <<>>
          THEN /\ rpc' = "done"
               /\ UNCHANGED <<fpos, sent>>
          ELSE /\ fpos' = fpos + Len(chunk)
               /\ sent' = sent \o chunk
               /\ UNCHANGED rpc
    /\ UNCHANGED <<fileSize, rangeHeader, reqRange, response, remaining>>
    /\ UNCHANGED <<tvars, hvars>>

\* sizes of the served file
FileSizes == {0, 1, 130, 1000}

\* first and last bytes of the requested ranges (-1: left out of the header)
RangeStarts == {-1, 0, 1, 100, 900, 1000, 2000}

RangeEnds == {-1, 0, 99, 199, 999, 5000}

\* "bytes=<start>-<end>" as a client writes it
FormatRange(rg) ==
    BytesEq \o (IF rg[1] >= 0 THEN str(rg[1]) ELSE <<>>) \o <<"-">>
            \o (IF rg[2] >= 0 THEN str(rg[2]) ELSE <<>>)

NoRange == <<-2, -2>>

\* Range headers that are not of the form bytes=<int?>-<int?>:
\* "bytes=a-", "bytes=5", "bytes=0-5-9", "items=0-5"
MalformedHeaders ==
    { BytesEq \o <<"a", "-">>,
      BytesEq \o <<"5">>,
      BytesEq \o <<"0", "-", "5", "-", "9">>,
      <<"i", "t", "e", "m", "s", "=", "0", "-", "5">> }

InitRange ==
    /\ fileSize \in FileSizes
    /\ reqRange \in (RangeStarts \X RangeEnds) \cup {NoRange}
    /\ rangeHeader \in IF reqRange = NoRange THEN {<<>>} \cup MalformedHeaders
                      ELSE {FormatRange(reqRange)}
    /\ response = NoResponse
    /\ fpos = 0
    /\ remaining = 0
    /\ sent = <<>>
    /\ rpc = "request"

(***************************************************************************)
(* stream_video up to its response: the checks on the video, the resolved  *)
(* path, the view count and the status of the response.  The video's       *)
(* status is READY.                                                        *)
(***************************************************************************)
\* Range headers of the stream requests
StreamRanges == {NoRange, <<0, -1>>, <<100, 199>>}

\* os.path.exists of the path get_video_for_quality resolved, in the files it left
path_exists(g, q) ==
    CASE g.path = "original"   -> origExists
      [] g.path = "transcoded" -> g.file[q] # "absent"
      [] OTHER                 -> FALSE

\* mutant: every stream request is counted as a view
view_counted_always(header) == TRUE

\* "Increment view count (only on initial request, not on range requests)"
view_counted(header) == header = <<>>

increment_view_count(count) == count + 1

StreamVideo ==
    \E q \in {key, "original"}, rg \in StreamRanges, res \in ResolutionProbes,
       probe \in {"ran", "raised"} :
        LET g      == get_video_for_quality(q, FALSE, res, probe)
            header == IF rg = NoRange THEN <<>> ELSE FormatRange(rg)
            reply  == [Reply(q, FALSE, res, g) EXCEPT !.op = "stream_video",
                                                      !.ranged = (rg # NoRange)]
        IN
        /\ event = NoEvent
        /\ nreq < MaxRequests
        /\ nreq' = nreq + 1
        /\ IF ~origExists
           THEN /\ event' = [reply EXCEPT !.status = 404, !.path = "none", !.started = FALSE]
                /\ UNCHANGED <<file, vcache, jobs, viewCount>>
           ELSE /\ file' = g.file
                /\ vcache' = g.vcache
                /\ jobs' = g.jobs
                /\ IF g.path = "none" \/ ~path_exists(g, q)
                   THEN /\ event' = [reply EXCEPT !.status = 500]
                        /\ UNCHANGED viewCount
                   ELSE /\ viewCount' = IF view_counted(header)
                                        THEN increment_view_count(viewCount)
                                        ELSE viewCount
                        /\ event' = [reply EXCEPT !.status =
                                        IF header = <<>> THEN 200
                                        ELSE IF parse_raises(header) THEN 500 ELSE 206]
        /\ UNCHANGED <<origExists, native, key, now>>
        /\ UNCHANGED <<hvars, rvars>>

(***************************************************************************)
(* Specifications: one per subsystem; the other subsystem's state stays in *)
(* its initial condition.                                                  *)
(***************************************************************************)
\* the range subsystem at rest: a request that has been served
RangeAtRest ==
    /\ fileSize = 0
    /\ reqRange = NoRange
    /\ rangeHeader = <<>>
    /\ response = NoResponse
    /\ fpos = 0
    /\ remaining = 0
    /\ sent = <<>>
    /\ rpc = "done"

InitT == InitTranscode /\ InitHls /\ RangeAtRest

NextT ==
    \/ GetVideoForQuality
    \/ GetAvailableQualities
    \/ \E r \in BagToSet(jobs) : Spawn(r)
    \/ \E r \in BagToSet(jobs) : SpawnRaises(r)
    \/ \E r \in BagToSet(jobs) : ProcessExit(r)
    \/ \E r \in BagToSet(jobs) : Finish(r)
    \/ Return
    \/ Tick

SpecT == InitT /\ [][NextT]_vars

\* stream requests, with the encode jobs they start
InitS == InitTranscode /\ InitHls /\ RangeAtRest

NextS ==
    \/ StreamVideo
    \/ \E r \in BagToSet(jobs) : Spawn(r)
    \/ \E r \in BagToSet(jobs) : SpawnRaises(r)
    \/ \E r \in BagToSet(jobs) : ProcessExit(r)
    \/ \E r \in BagToSet(jobs) : Finish(r)
    \/ Return
    \/ Tick

SpecS == InitS /\ [][NextS]_vars

\* lookups and encode jobs, with the deletion of the cached files and of the video
InitD == InitTranscode /\ InitHls /\ RangeAtRest

NextD ==
    \/ GetVideoForQuality
    \/ \E r \in BagToSet(jobs) : Spawn(r)
    \/ \E r \in BagToSet(jobs) : SpawnRaises(r)
    \/ \E r \in BagToSet(jobs) : ProcessExit(r)
    \/ \E r \in BagToSet(jobs) : Finish(r)
    \/ Return
    \/ DeleteTranscodedFiles
    \/ DeleteVideo

SpecD == InitD /\ [][NextD]_vars

\* lookups and encode jobs under the scheduling the program guarantees: the event
\* loop runs every coroutine that can run (a created transcode_video starts its
\* encoder, communicate() resumes once the process has exited, a finished call
\* returns).  Nothing makes the encoder process exit: communicate() is awaited
\* without a timeout and the process is never killed, so ProcessExit is not fair.
InitL == InitTranscode /\ InitHls /\ RangeAtRest

NextL ==
    \/ GetVideoForQuality
    \/ \E r \in BagToSet(jobs) : Spawn(r)
    \/ \E r \in BagToSet(jobs) : SpawnRaises(r)
    \/ \E r \in BagToSet(jobs) : ProcessExit(r)
    \/ \E r \in BagToSet(jobs) : Finish(r)
    \/ Return

SpecL ==
    /\ InitL /\ [][NextL]_vars
    /\ WF_vars(\E r \in BagToSet(jobs) : Spawn(r) \/ SpawnRaises(r))
    /\ WF_vars(\E r \in BagToSet(jobs) : Finish(r))
    /\ WF_vars(Return)

InitH ==
    /\ InitHls
    /\ RangeAtRest
    /\ InitTranscode
    /\ origExists
    /\ native = <<1920, 1080>>
    /\ key = "480p"

NextH ==
    \/ \E qualities \in QualityLists : ConvertHlsEndpoint(qualities)
    \/ \E r \in BagToSet(runs) : RunStart(r)
    \/ \E r \in BagToSet(runs) : RunStep(r)
    \/ Add4kStart
    \/ Add4kExit
    \/ HlsStatusEndpoint
    \/ HlsProgressEndpoint
    \/ HlsReturn

SpecH == InitH /\ [][NextH]_vars

InitR ==
    /\ InitRange
    /\ InitHls
    /\ InitTranscode
    /\ origExists
    /\ native = <<1920, 1080>>
    /\ key = "480p"

NextR ==
    \/ ServeRequest
    \/ IterfileRange
    \/ Iterfile

SpecR == InitR /\ [][NextR]_vars

(***************************************************************************)
(* Properties of the transcode-and-cache subsystem (SpecT).                *)
(***************************************************************************)

\* C1: single-flight: background-mode calls for the same key that all miss the
\* cache start one encoder, so that in every reachable state at most one encode
\* job created by them is in flight per key.
C1_SingleFlight == \A q \in LadderQualities : InFlightBackground(q) <= 1

Returned == event.op = "get_video_for_quality"

\* C2 as stated: whenever the asset's native height is at most the ladder height
\* of the requested quality, get_video_for_quality returns the original path and
\* starts no encoder.
C2_NoUpscaleAnyProbe ==
    (/\ Returned
     /\ event.q \in LadderQualities
     /\ origExists
     /\ native[2] <= QUALITY_SETTINGS[event.q].height)
    => (event.path = "original" /\ ~event.started)

\* C2 (amended): when the original exists and the resolution probe reports a
\* non-zero width and height, with height at most the ladder height of the
\* requested quality, should_use_original is true and get_video_for_quality
\* returns the original path without creating an encode job.
C2_NoUpscale ==
    (/\ Returned
     /\ event.q \in LadderQualities
     /\ origExists
     /\ event.known
     /\ native[2] <= QUALITY_SETTINGS[event.q].height)
    => (/\ should_use_original(native, event.q)
        /\ event.path = "original"
        /\ ~event.started)

C2_Witness ==
    /\ Returned
    /\ event.q \in LadderQualities
    /\ origExists
    /\ event.known
    /\ native[2] = QUALITY_SETTINGS[event.q].height
    /\ event.path = "original"

\* C3: get_video_for_quality never returns a transcoded path while an encoder
\* process that writes the file at that path is still running.
C3_NoReaderOnWrittenPath ==
    (Returned /\ event.path = "transcoded") => Writers(event.q) = 0

\* C4: transcode_video returns True only if the encoder exited with status 0 and
\* the output exists and is at least the minimum size; otherwise it returns False
\* and the output path does not exist when it returns.
C4_SuccessCriteria ==
    event.op = "transcode_video" =>
        /\ event.ret <=> (/\ event.rc = 0
                          /\ event.left # "absent"
                          /\ getsize(event.left) >= MinFileSize)
        /\ ~event.ret => event.left = "absent"

\* a get_video_for_quality call (a direct one or the one of a stream request)
\* for a ladder quality takes this step and gets as far as the cache lookup
Lookup(op) ==
    /\ event = NoEvent
    /\ event'.op = op
    /\ event'.q \in LadderQualities
    /\ origExists
    /\ ~(event'.known /\ should_use_original(native, event'.q))

\* the validation of q's file can only come out invalid / can come out valid
JudgedInvalid(q) ==
    /\ exists(q)
    /\ IF CacheFresh(vcache[q], now) THEN ~vcache[q].valid ELSE file[q] # "ok"

JudgedValid(q) ==
    /\ exists(q)
    /\ IF CacheFresh(vcache[q], now) THEN vcache[q].valid ELSE file[q] = "ok"

\* this step ran a probe that did not complete: the verdict was stale and stays
ProbeRaised(q) == ~CacheFresh(vcache[q], now) /\ vcache' = vcache

\* C11: each successfully served stream request without a Range header raises
\* the view count by exactly one, each request with a Range header by zero, and
\* nothing else changes it.
C11_ViewCount ==
    [][IF event = NoEvent /\ event'.op = "stream_video"
       THEN /\ (event'.status \in {200, 206} /\ ~event'.ranged)
                 => viewCount' = viewCount + 1
            /\ event'.ranged => viewCount' = viewCount
       ELSE viewCount' = viewCount]_vars

C11_Witness ==
    /\ event.op = "stream_video"
    /\ event.ranged
    /\ event.status = 206
    /\ nreq = 3
    /\ viewCount = 1

\* C12: a background-mode get_video_for_quality call that misses returns the
\* original path, and when it returns the encoder of the job it created has not
\* even been started.
C12_BackgroundReturnsOriginal ==
    (Returned /\ ~event.sync /\ event.started)
    => /\ event.path = "original"
       /\ \E r \in BagToSet(jobs) : r.q = event.q /\ ~r.sync /\ r.st = "pending"

C12_Witness ==
    /\ Returned
    /\ ~event.sync
    /\ event.started
    /\ event.found = "partial"
    /\ event.path = "original"

\* C13: the sync-mode call that missed returns, once its encode job has
\* resolved, the transcoded path if the job succeeded (exit status 0, output
\* present and of at least the minimum size) and the original path otherwise.
C13_SyncResult ==
    (event.op = "transcode_video" /\ event.sync)
    => event.path = IF /\ event.rc = 0
                       /\ event.left # "absent"
                       /\ getsize(event.left) >= MinFileSize
                    THEN "transcoded" ELSE "original"

\* C14: while no TTL has elapsed, a lookup of a key whose encode jobs have all
\* returned and whose path holds the valid output of an encode returns the
\* transcoded path and leaves the file, unless the validation of this lookup
\* itself fails.
C14_StoredArtifactServed ==
    [][(/\ Lookup("get_video_for_quality")
        /\ file[event'.q] = "ok"
        /\ InFlight(event'.q) = 0
        /\ now < VALIDATION_CACHE_TTL)
       => \/ (event'.path = "transcoded" /\ file'[event'.q] = "ok")
          \/ ProbeRaised(event'.q)]_vars

C17_NeverHardFails ==
    (event.op = "stream_video" /\ origExists)
    => /\ event.status \in {200, 206}
       /\ event.path \in {"transcoded", "original"}
       /\ event.path = "transcoded" => exists(event.q)

C17_Witness ==
    /\ event.op = "stream_video"
    /\ event.found \in {"partial", "small"}
    /\ event.started
    /\ event.status \in {200, 206}
    /\ event.path = "original"

\* C20: once the background encodes of a key have completed and left a valid
\* output, a later get_video_for_quality call of a stream request for the key
\* returns the transcoded path and starts no encoder, unless its own validation
\* fails.
C20_BackgroundResultObserved ==
    [][(/\ Lookup("stream_video")
        /\ file[event'.q] = "ok"
        /\ InFlight(event'.q) = 0)
       => \/ (event'.path = "transcoded" /\ ~event'.started)
          \/ ProbeRaised(event'.q)]_vars

\* an encode job failed: non-zero exit, or an output that is missing or under
\* the minimum size
JobFailed(e) ==
    \/ e.rc # 0
    \/ e.left = "absent"
    \/ getsize(e.left) < MinFileSize

\* C21: when a failed encode job returns, no file is left at the key's path;
\* encode jobs are created only by get_video_for_quality calls that miss, one
\* per call.
C21_FailedEncodeNotCached ==
    [][/\ (event = NoEvent /\ event'.op = "transcode_video" /\ JobFailed(event'))
          => file'[event'.q] = "absent"
       /\ BagCardinality(jobs') > BagCardinality(jobs)
          => /\ event'.op = "get_video_for_quality"
             /\ event'.started
             /\ BagCardinality(jobs') = BagCardinality(jobs) + 1]_vars

\* C22: a completed artifact for a ladder quality is no wider and no higher than
\* the ladder entry and than the asset's native size.
C22_ArtifactWithinNative ==
    \A q \in LadderQualities :
        file[q] = "ok"
        => /\ produced_size(q)[1] <= QUALITY_SETTINGS[q].width
           /\ produced_size(q)[2] <= QUALITY_SETTINGS[q].height
           /\ produced_size(q)[1] <= native[1]
           /\ produced_size(q)[2] <= native[2]

\* C28: no lookup (get_video_for_quality, get_available_qualities) deletes a
\* transcoded file that a running encoder process is writing.
C28_NoDeleteWhileWriting ==
    [][(event = NoEvent
        /\ event'.op \in {"get_video_for_quality", "get_available_qualities"})
       => \A q \in LadderQualities :
            ~(Writers(q) > 0 /\ exists(q) /\ file'[q] = "absent")]_vars

\* C29: the cleanup of a transcode_video that failed removes no artifact that
\* another job for the key completed successfully.
C29_CleanupConfined ==
    [][(event = NoEvent /\ event'.op = "transcode_video" /\ ~event'.ret)
       => ~(file[event'.q] = "ok" /\ file'[event'.q] = "absent")]_vars

\* the verdict that a completed probe of q's file records now
ProbedVerdict(q) == [valid |-> ffprobe_valid(file[q]), ts |-> now]

\* C27 as claimed: in a lookup that validates q's file, a verdict younger than the
\* TTL is returned as it is and the cache is left alone; with no verdict or one of
\* age TTL or more, the probe's result is returned and replaces the cached
\* verdict, stamped with the current time.
C27_ProbeReplacesVerdict ==
    [][\A q \in LadderQualities :
         (Lookup("get_video_for_quality") /\ event'.q = q /\ exists(q))
         => IF CacheFresh(vcache[q], now)
            THEN /\ vcache' = vcache
                 /\ (event'.path = "transcoded") <=> vcache[q].valid
            ELSE /\ vcache' = [vcache EXCEPT ![q] = ProbedVerdict(q)]
                 /\ (event'.path = "transcoded") <=> ProbedVerdict(q).valid]_vars

\* C27 amended: as above when the probe completes; a probe that raises or times out
\* makes the call answer "invalid" and leaves the cache as it was.
C27_CachedValidation ==
    [][\A q \in LadderQualities :
         (Lookup("get_video_for_quality") /\ event'.q = q /\ exists(q))
         => IF CacheFresh(vcache[q], now)
            THEN /\ vcache' = vcache
                 /\ (event'.path = "transcoded") <=> vcache[q].valid
            ELSE \/ /\ vcache' = [vcache EXCEPT ![q] = ProbedVerdict(q)]
                    /\ (event'.path = "transcoded") <=> ProbedVerdict(q).valid
                 \/ /\ vcache' = vcache
                    /\ event'.path # "transcoded"]_vars

C27_Witness ==
    /\ Returned
    /\ ~event.fresh
    /\ event.found = "ok"
    /\ now = TickStep
    /\ vcache[event.q] = [valid |-> TRUE, ts |-> now]
    /\ event.path = "transcoded"

\* C25: every encoder invocation is bounded: each transcode_video coroutine
\* eventually returns, also when its encoder process never exits, so no encode job
\* (and no sync-mode call awaiting one) stays in flight for ever.
C25_EncodeReturns == (jobs # EmptyBag) ~> (jobs = EmptyBag)

\* C23: cached artifacts are removed with their asset: after
\* delete_transcoded_files(original_path), and after the video is deleted, no file
\* exists at get_transcoded_path(original_path, Q) for any ladder quality Q.
C23_ArtifactsRemovedWithAsset ==
    [][(event = NoEvent /\ event'.op \in {"delete_transcoded_files", "delete_video"})
        => \A q \in LadderQualities : file'[q] = "absent"]_vars

(***************************************************************************)
(* Properties of the HLS pipeline (SpecH).                                 *)
(***************************************************************************)
SeqToSet(sq) == { sq[i] : i \in 1..Len(sq) }

RECURSIVE Successes(_, _)
\* the subsequence of qs at the positions where os is TRUE
Successes(qs, os) ==
    IF qs = <<>> THEN <<>>
    ELSE (IF Head(os) THEN <<Head(qs)>> ELSE <<>>) \o Successes(Tail(qs), Tail(os))

\* a convert_video_to_hls run has ended
ConversionReturned == hlsEvent.op = "convert_video_to_hls"

\* C5: whenever master.m3u8 exists, every rendition it references has its
\* {quality}/playlist.m3u8 on disk.
C5_MasterReferencesExisting ==
    master.exists => \A q \in SeqToSet(master.quals) : playlist[q]

C5_Witness ==
    /\ master.exists
    /\ add4k = "done"
    /\ "4k" \in SeqToSet(master.quals)
    /\ Len(master.quals) >= 2
    /\ \E q \in LadderQualities : playlist[q] /\ q \notin SeqToSet(master.quals)

\* C6: when a convert_video_to_hls run with at least one successful rendition
\* ends, the master it wrote lists exactly the qualities that succeeded, as the
\* subsequence of the requested list in the requested order.
C6_MasterListsSuccessesInOrder ==
    (ConversionReturned /\ TRUE \in SeqToSet(hlsEvent.outcomes))
    => (/\ master.exists
        /\ master.quals = Successes(hlsEvent.quals, hlsEvent.outcomes))

\* C7: a /convert-hls request that finds master.m3u8 answers "already completed"
\* with the qualities whose playlists exist, creates no conversion run (so no
\* encoder is started) and leaves the HLS tree unchanged.
C7_AlreadyCompleted ==
    [][ (hlsEvent.op = "none" /\ hlsEvent'.op = "convert-hls" /\ master.exists)
        => (/\ hlsEvent'.message = "HLS conversion already completed"
            /\ SeqToSet(hlsEvent'.available) = {q \in LadderQualities : playlist[q]}
            /\ SeqToSet(master.quals) \subseteq SeqToSet(hlsEvent'.available)
            /\ runs' = runs
            /\ add4k' = add4k
            /\ <<hlsDir, playlist, master>>' = <<hlsDir, playlist, master>>) ]_vars

C7_Witness ==
    /\ hlsEvent.op = "convert-hls"
    /\ hlsEvent.message = "HLS conversion already completed"
    /\ master.exists
    /\ Len(hlsEvent.available) >= 2

\* C8: a convert_video_to_hls run returns True, with master.m3u8 written, if and
\* only if at least one requested rendition succeeded; when every attempted
\* rendition failed it returns False and writes no master.
C8_CompletedIffSuccess ==
    [][ (hlsEvent.op = "none" /\ hlsEvent'.op = "convert_video_to_hls")
        => LET any == TRUE \in SeqToSet(hlsEvent'.outcomes)
           IN /\ hlsEvent'.ret <=> any
              /\ any => (master'.exists /\ master'.quals # <<>>)
              /\ ~any => master' = master ]_vars

\* C24 (quality labels): a /convert-hls request that carries a label outside the
\* ladder is rejected: no conversion is reported as started and none is created.
C24_UnknownLabelRejected ==
    [][ (hlsEvent = NoHlsEvent /\ hlsEvent'.op = "convert-hls"
         /\ \E q \in SeqToSet(hlsEvent'.quals) : q \notin DOMAIN HLS_QUALITY_SETTINGS)
        => (hlsEvent'.message # "HLS conversion started" /\ runs' = runs) ]_vars

\* C26: a convert_video_to_hls run attempts every requested quality, in the
\* requested order: when the run ends there is one outcome per requested quality,
\* whatever the earlier attempts did.
C26_EveryQualityAttempted ==
    [][ (hlsEvent = NoHlsEvent /\ hlsEvent'.op = "convert_video_to_hls")
        => Len(hlsEvent'.outcomes) = Len(hlsEvent'.quals) ]_vars

\* C18: the status and progress endpoints answer with a well-formed snapshot in
\* every state; with no master and no conversion the progress endpoint answers
\* not_started with progress 0.
C18_WellFormedSnapshot ==
    hlsEvent.op \in {"hls/status", "hls/progress"} =>
        /\ hlsEvent.code = 200
        /\ (hlsEvent.op = "hls/progress" /\ ~master.exists /\ runs = EmptyBag)
             => (hlsEvent.status = "not_started" /\ hlsEvent.progress = 0)

\* number of convert_video_to_hls coroutines whose encoders are running
ActivePipelines ==
    BagCardinality([r \in {x \in BagToSet(runs) : x.i >= 1} |-> runs[r]])

\* C19: at most one convert_video_to_hls execution is active at any instant.
C19_SinglePipeline == ActivePipelines <= 1

(***************************************************************************)
(* Properties of range serving (SpecR).                                    *)
(***************************************************************************)
\* the request carries a range of the form bytes=<int?>-<int?>
Asked == reqRange # NoRange

\* C24 (range headers): a Range header that is not of the form
\* bytes=<int?>-<int?> is answered with a client error and no byte is streamed.
C24_MalformedRangeRejected ==
    (rangeHeader \in MalformedHeaders /\ rpc # "request")
    => (response.status \in 400..499 /\ sent = <<>>)

\* the first byte asked for, 0 when the header leaves it out
AskedStart == IF reqRange[1] >= 0 THEN reqRange[1] ELSE 0

\* the last byte asked for (the last byte of the file when the header leaves it
\* out), clamped to the last byte of the file
AskedEnd == Min(IF reqRange[2] >= 0 THEN reqRange[2] ELSE fileSize - 1, fileSize - 1)

\* C9: a request with the header bytes=start-end is answered 206 with
\* Content-Range bytes start-e/S and Content-Length e - start + 1, where
\* e = min(end, S - 1), start defaults to 0 and end to S - 1.
C9_RangeHeaders ==
    (Asked /\ rpc # "request")
    => (/\ response.status = 206
        /\ response.start = AskedStart
        /\ response.end = AskedEnd
        /\ response.content_length = AskedEnd - AskedStart + 1)

C9_Witness ==
    /\ fileSize = 1000
    /\ rangeHeader = BytesEq \o <<"1", "0", "0", "-", "1", "9", "9">>
    /\ response = [status |-> 206, start |-> 100, end |-> 199, content_length |-> 100,
                   ranged |-> TRUE]
    /\ rpc = "done"

\* C10: the bytes iterfile_range yields for a range request are exactly
\* contentLength bytes, the file's bytes [start, start + contentLength).
C10_ExactBytes ==
    (Asked /\ rpc = "done")
    => (/\ Len(sent) = response.content_length
        /\ sent = [i \in 1..response.content_length |-> fileByte(response.start + i - 1)])

\* C30: for a file of at least one byte and every parsed range, the Content-Length
\* of the 206 response is non-negative and is the number of bytes iterfile_range
\* yields, and the Content-Range satisfies 0 <= start <= end <= S - 1.
C30_SatisfiableRange ==
    (Asked /\ fileSize >= 1 /\ rpc = "done" /\ response.status = 206)
    => (/\ response.content_length >= 0
        /\ response.content_length = Len(sent)
        /\ 0 <= response.start
        /\ response.start <= response.end
        /\ response.end <= fileSize - 1)

====
